---- MODULE Spec2Model ----
(***************************************************************************)
(* Model of etl/run_pipeline.py: the daily orders / order-items pipeline.   *)
(*                                                                         *)
(* A DataFrame is a record [dtypes, rows]: dtypes maps each column to its   *)
(* dtype, rows is the sequence of rows in positional order, each row being  *)
(* [idx |-> index label, c |-> column -> cell].  A cell is a tagged record  *)
(* (NA, Str, Num, Ts), so that a parsed value differs from its text.        *)
(* One action per step of main().                                           *)
(***************************************************************************)
EXTENDS Integers, Sequences, FiniteSets, TLC

VARIABLES
    pc,                     \* position of main()
    error,                  \* the exception main() ended with, << >> if none
    ordersFile,             \* orders_<run_date>.csv: [exists, cols, rows]
    itemsFile,              \* order_items_<run_date>.csv
    outDir,                 \* output_dir: [exists, files]
    orders,                 \* the DataFrame bound to `orders` in main
    items,                  \* the DataFrame bound to `items` in main
    valid_orders,
    rejected_orders,
    orders_after_dq,
    orders_rejected_dq,
    orders_deduped,
    valid_items,
    rejected_items,
    items_after_dq,
    items_rejected_dq,
    items_rejected_orphan,
    joined,                 \* the merge result inside compute_daily_revenue
    daily_revenue,
    completed_orders,
    orders_with_revenue,
    total_revenue,
    report

vars == << pc, error, ordersFile, itemsFile, outDir, orders, items,
           valid_orders, rejected_orders, orders_after_dq, orders_rejected_dq,
           orders_deduped, valid_items, rejected_items, items_after_dq,
           items_rejected_dq, items_rejected_orphan, joined, daily_revenue,
           completed_orders, orders_with_revenue, total_revenue, report >>

----------------------------------------------------------------------------
(* Bounds of the explored inputs.                                          *)

MaxOrders == 2

MaxItems == 2

----------------------------------------------------------------------------
(* Cells and tables.                                                       *)

\* no exception
NoError == << >>

NA == [t |-> "na", s |-> "", n |-> 0]

Str(s) == [t |-> "str", s |-> s, n |-> 0]

Num(n) == [t |-> "num", s |-> "", n |-> n]

Ts(n) == [t |-> "ts", s |-> "", n |-> n]

NoTable == [dtypes |-> [c \in {} |-> ""], rows |-> << >>]

Columns(df) == DOMAIN df.dtypes

\* rows[i] for the positions i (ascending) where the boolean mask is true
FilterIdx(rows, mask) ==
    LET Keep(i) == mask[i]
        idxs    == SelectSeq([i \in 1..Len(rows) |-> i], Keep)
    IN  [k \in 1..Len(idxs) |-> rows[idxs[k]]]

\* df[mask]: the rows whose mask is true, same columns and dtypes
BoolIndex(df, mask) ==
    [dtypes |-> df.dtypes, rows |-> FilterIdx(df.rows, mask)]

\* ~mask
Not(mask) == [i \in 1..Len(mask) |-> ~mask[i]]

----------------------------------------------------------------------------
(* Text conversions.                                                       *)

\* the texts a CSV numeric parser accepts, and their values
NumText ==
    ("0" :> 0) @@ ("1" :> 1) @@ ("2" :> 2) @@ ("3" :> 3) @@ ("-1" :> (-1))

\* the texts pd.to_datetime accepts, and the instants they denote
DatetimeText ==
    ("2024-01-01" :> 2024010100) @@ ("2024-01-02" :> 2024010200) @@
    ("2024-01-01 10:00" :> 2024010110) @@ ("2024-01-01 11:00" :> 2024010111)

\* str.strip().str.lower() on the status texts
StripLower ==
    (" Completed " :> "completed") @@ ("COMPLETED" :> "completed") @@
    ("completed" :> "completed") @@ ("pending" :> "pending")

\* the characters of a text cell (Python str), for str * int and str + str
Chars ==
    ("2" :> << "2" >>) @@ ("3" :> << "3" >>) @@ ("abc" :> << "a", "b", "c" >>)

Digit == ("0" :> 0) @@ ("1" :> 1) @@ ("2" :> 2) @@ ("3" :> 3)

----------------------------------------------------------------------------
(* pd.read_csv: dtype inference per column, empty fields become NaN.       *)

ColTexts(csv, col) == { csv.rows[i][col] : i \in 1..Len(csv.rows) }

InferDtype(csv, col) ==
    LET texts == ColTexts(csv, col) \ {""}
    IN  IF Len(csv.rows) = 0 THEN "object"
        ELSE IF texts = {} THEN "float64"
        ELSE IF texts \subseteq DOMAIN NumText
             THEN (IF "" \in ColTexts(csv, col) THEN "float64" ELSE "int64")
        ELSE "object"

ReadCell(text, dtype) ==
    IF text = "" THEN NA
    ELSE IF dtype \in {"int64", "float64"} THEN Num(NumText[text])
    ELSE Str(text)

read_csv(csv) ==
    LET dt == [col \in csv.cols |-> InferDtype(csv, col)]
    IN  [dtypes |-> dt,
         rows   |-> [i \in 1..Len(csv.rows) |->
                       [idx |-> i - 1,
                        c   |-> [col \in csv.cols |->
                                   ReadCell(csv.rows[i][col], dt[col])]]]]

----------------------------------------------------------------------------
(* Column assignment and datetime parsing, in place on the frame.          *)

\* for col in required_cols: if col not in df.columns: df[col] = None
EnsureCols(df, required) ==
    LET missing == required \ Columns(df)
        all     == Columns(df) \cup required
    IN  [dtypes |-> [col \in all |->
                       IF col \in missing THEN "object" ELSE df.dtypes[col]],
         rows   |-> [i \in 1..Len(df.rows) |->
                       [idx |-> df.rows[i].idx,
                        c   |-> [col \in all |->
                                   IF col \in missing THEN NA
                                   ELSE df.rows[i].c[col]]]]]

\* pd.to_datetime(value, errors="coerce") on one cell
to_datetime(cell) ==
    IF cell.t = "ts" THEN cell
    ELSE IF cell.t = "str" /\ cell.s \in DOMAIN DatetimeText
         THEN Ts(DatetimeText[cell.s])
    ELSE NA

\* df[col] = pd.to_datetime(df[col], errors="coerce")
ParseDatetimeCol(df, col) ==
    [dtypes |-> [df.dtypes EXCEPT ![col] = "datetime64"],
     rows   |-> [i \in 1..Len(df.rows) |->
                   [df.rows[i] EXCEPT !.c[col] = to_datetime(@)]]]

----------------------------------------------------------------------------
(* stage_and_validate_orders                                               *)

isna(cell) == cell.t = "na"

OrdersRequired == {"order_id", "customer_id", "order_date", "status"}

\* lines 10-21: the statements that assign into the caller's frame
PrepareOrders(df) ==
    LET a == EnsureCols(df, OrdersRequired)
        b == IF "ingested_at" \in Columns(a)
             THEN ParseDatetimeCol(a, "ingested_at") ELSE a
    IN  ParseDatetimeCol(b, "order_date")

\* orders[required_cols].isna().any(axis=1), for one row
OrdersDqMask(row) == \E col \in OrdersRequired : isna(row.c[col])

\* dq_mask, the boolean Series over the frame
OrdersDqMaskOf(df) == [i \in 1..Len(df.rows) |-> OrdersDqMask(df.rows[i])]

Perms(n) == { p \in [1..n -> 1..n] : \A i, j \in 1..n : i # j => p[i] # p[j] }

\* May the row at position i come before the row at position j after
\* sort_values(col)?  Ascending, NaT last (na_position="last"); NaT rows keep
\* their relative order; the default quicksort leaves equal keys in any order.
MayPrecede(rows, col, i, j) ==
    LET a == rows[i].c[col]
        b == rows[j].c[col]
    IN  \/ ~isna(a) /\ isna(b)
        \/ isna(a) /\ isna(b) /\ i < j
        \/ ~isna(a) /\ ~isna(b) /\ a.n <= b.n

\* the row orders sort_values(col) can produce
sort_values(rows, col) ==
    { [k \in 1..Len(rows) |-> rows[p[k]]] :
        p \in { q \in Perms(Len(rows)) :
                  \A i, j \in 1..Len(rows) :
                      i < j => MayPrecede(rows, col, q[i], q[j]) } }

\* variant: no row is dropped
drop_duplicatesKeepsAll(rows, col, keep) == rows

\* drop_duplicates(subset=[col], keep=keep)
drop_duplicates(rows, col, keep) ==
    LET Keep(i) ==
            IF keep = "last"
            THEN \A j \in (i + 1)..Len(rows) : rows[j].c[col] # rows[i].c[col]
            ELSE \A j \in 1..(i - 1) : rows[j].c[col] # rows[i].c[col]
    IN  FilterIdx(rows, [i \in 1..Len(rows) |-> Keep(i)])

\* lines 28-37, given the order the sort produced
DedupOrders(valid_stage, sorted) ==
    IF "ingested_at" \in Columns(valid_stage)
    THEN [dtypes |-> valid_stage.dtypes,
          rows   |-> drop_duplicates(sorted, "order_id", "last")]
    ELSE [dtypes |-> valid_stage.dtypes,
          rows   |-> drop_duplicates(valid_stage.rows, "order_id", "first")]

----------------------------------------------------------------------------
(* stage_and_validate_items                                                *)

ItemsRequired == {"order_id", "quantity", "unit_price"}

\* lines 56-63
PrepareItems(df) ==
    LET a == EnsureCols(df, ItemsRequired)
    IN  IF "ingested_at" \in Columns(a)
        THEN ParseDatetimeCol(a, "ingested_at") ELSE a

\* items["unit_price"] <= 0 compares every non-null element with int 0:
\* a str element raises TypeError
ItemsCompareError == << "TypeError", "'<=' not supported between instances of 'str' and 'int'" >>

ItemsCompareRaises(df) ==
    \E i \in 1..Len(df.rows) : df.rows[i].c["unit_price"].t = "str"

\* lines 65-69, for one row of a frame on which the comparison does not raise
ItemsDqMask(row) ==
    \/ isna(row.c["quantity"])
    \/ isna(row.c["unit_price"])
    \/ (row.c["unit_price"].t = "num" /\ row.c["unit_price"].n <= 0)

\* dq_mask, the boolean Series over the frame
ItemsDqMaskOf(df) == [i \in 1..Len(df.rows) |-> ItemsDqMask(df.rows[i])]

\* variant: the surviving rows are selected without the price test
ItemsValidStageNoPriceTest(df) ==
    BoolIndex(df, [i \in 1..Len(df.rows) |->
                     /\ ~isna(df.rows[i].c["quantity"])
                     /\ ~isna(df.rows[i].c["unit_price"])])

\* valid_stage = items[~dq_mask].copy()
ItemsValidStage(df) == BoolIndex(df, Not(ItemsDqMaskOf(df)))

\* set(valid_orders["order_id"])
ValidOrderIds(vo) == { vo.rows[i].c["order_id"] : i \in 1..Len(vo.rows) }

\* variant: a null order_id is not looked up
IsOrphanSkipsNull(row, ids) ==
    ~isna(row.c["order_id"]) /\ row.c["order_id"] \notin ids

\* ~valid_stage["order_id"].isin(valid_order_ids), for one row
IsOrphan(row, ids) == row.c["order_id"] \notin ids

\* orphan_mask, the boolean Series over valid_stage
OrphanMaskOf(df, ids) == [i \in 1..Len(df.rows) |-> IsOrphan(df.rows[i], ids)]

\* pd.concat([a, b], ignore_index=True)
concat(a, b) ==
    LET rs == a.rows \o b.rows
    IN  [dtypes |-> a.dtypes,
         rows   |-> [i \in 1..Len(rs) |-> [idx |-> i - 1, c |-> rs[i].c]]]

----------------------------------------------------------------------------
(* compute_daily_revenue                                                   *)

\* valid_orders["status"].str raises AttributeError unless the column holds
\* strings (object dtype); a column read from all-empty fields is float64
StrAccessorError == << "AttributeError", "Can only use .str accessor with string values" >>

StrAccessorRaises(vo) == vo.dtypes["status"] \in {"int64", "float64"}

\* status.str.strip().str.lower() == "completed", for one row
IsCompleted(row) ==
    LET st == row.c["status"]
    IN  /\ st.t = "str"
        /\ st.s \in DOMAIN StripLower
        /\ StripLower[st.s] = "completed"

RECURSIVE Flatten(_)
Flatten(ss) == IF Len(ss) = 0 THEN << >> ELSE Head(ss) \o Flatten(Tail(ss))

\* valid_items.merge(completed_orders[["order_id", "order_date"]],
\*                   on="order_id", how="inner"): left order, fresh index
merge(left, right) ==
    LET Pairs(l) ==
            LET Hit(r) == r.c["order_id"] = l.c["order_id"]
                hits   == SelectSeq(right.rows, Hit)
            IN  [k \in 1..Len(hits) |->
                    [col \in Columns(left) \cup {"order_date"} |->
                        IF col = "order_date" THEN hits[k].c["order_date"]
                        ELSE l.c[col]]]
        rs == Flatten([i \in 1..Len(left.rows) |-> Pairs(left.rows[i])])
    IN  [dtypes |-> [col \in Columns(left) \cup {"order_date"} |->
                        IF col = "order_date" THEN right.dtypes["order_date"]
                        ELSE left.dtypes[col]],
         rows   |-> [i \in 1..Len(rs) |-> [idx |-> i - 1, c |-> rs[i]]]]

\* an amount is a number, or a Python str when quantity is a text column
AmtNum(n) == [t |-> "num", n |-> n, chars |-> << >>]

AmtStr(cs) == [t |-> "str", n |-> 0, chars |-> cs]

RECURSIVE Repeat(_, _)
Repeat(cs, n) == IF n <= 0 THEN << >> ELSE cs \o Repeat(cs, n - 1)

\* joined["quantity"] * joined["unit_price"] raises TypeError for str * float
MulError == << "TypeError", "can't multiply sequence by non-int of type 'float'" >>

MulRaises(jn) ==
    /\ jn.dtypes["unit_price"] = "float64"
    /\ \E i \in 1..Len(jn.rows) : jn.rows[i].c["quantity"].t = "str"

\* quantity * unit_price for one joined row: int * number, or str * int
Mul(q, p) ==
    IF q.t = "str" THEN AmtStr(Repeat(Chars[q.s], p.n)) ELSE AmtNum(q.n * p.n)

\* the "sum" of amounts in row order: addition, or str concatenation
RECURSIVE SumAmounts(_)
SumAmounts(as) ==
    IF Len(as) = 0 THEN AmtNum(0)
    ELSE IF Len(as) = 1 THEN as[1]
    ELSE LET h == as[1]
             r == SumAmounts(Tail(as))
         IN  IF h.t = "str" THEN AmtStr(h.chars \o r.chars)
             ELSE AmtNum(h.n + r.n)

\* the values of S in ascending order
RECURSIVE Ascending(_)
Ascending(S) ==
    IF S = {} THEN << >>
    ELSE LET m == CHOOSE x \in S : \A y \in S : x <= y
         IN  << m >> \o Ascending(S \ {m})

\* groupby("order_date").agg(total_revenue=sum(amount),
\*                           orders_count=nunique(order_id)).reset_index()
GroupByDate(jn) ==
    LET dates == Ascending({ jn.rows[i].c["order_date"].n : i \in 1..Len(jn.rows) })
        Grp(d) ==
            LET In(r) == r.c["order_date"].n = d
            IN  SelectSeq(jn.rows, In)
        Amounts(g) ==
            [i \in 1..Len(g) |-> Mul(g[i].c["quantity"], g[i].c["unit_price"])]
    IN  [k \in 1..Len(dates) |->
            [order_date    |-> Ts(dates[k]),
             total_revenue |-> SumAmounts(Amounts(Grp(dates[k]))),
             orders_count  |->
                Cardinality({ Grp(dates[k])[i].c["order_id"] :
                                i \in 1..Len(Grp(dates[k])) })]]

RECURSIVE SumCounts(_)
SumCounts(dr) ==
    IF Len(dr) = 0 THEN 0 ELSE Head(dr).orders_count + SumCounts(Tail(dr))

\* float(x) of a Python str: its decimal value; ValueError on other texts
FloatError == << "ValueError", "could not convert string to float" >>

FloatRaises(a) ==
    a.t = "str" /\ (a.chars = << >> \/ \E i \in 1..Len(a.chars) : a.chars[i] \notin DOMAIN Digit)

RECURSIVE DecimalValue(_)
DecimalValue(cs) ==
    IF Len(cs) = 0 THEN 0
    ELSE 10 * DecimalValue(SubSeq(cs, 1, Len(cs) - 1)) + Digit[cs[Len(cs)]]

Float(a) == IF a.t = "str" THEN DecimalValue(a.chars) ELSE a.n

\* the whole function: what it raises ("" if nothing) and what it returns
compute_daily_revenue(vo, vi) ==
    LET completed == BoolIndex(vo, [i \in 1..Len(vo.rows) |-> IsCompleted(vo.rows[i])])
        early == [raised |-> NoError, joined |-> << >>, daily_revenue |-> << >>,
                  completed_orders_count |-> Len(completed.rows),
                  orders_with_revenue |-> 0, total_revenue |-> 0]
        jn    == merge(vi, completed)
        dr    == GroupByDate(jn)
        tot   == SumAmounts([k \in 1..Len(dr) |-> dr[k].total_revenue])
    IN  IF StrAccessorRaises(vo)
        THEN [early EXCEPT !.raised = StrAccessorError,
                           !.completed_orders_count = 0]
        ELSE IF Len(completed.rows) = 0 \/ Len(vi.rows) = 0 THEN early
        ELSE IF MulRaises(jn)
        THEN [early EXCEPT !.raised = MulError, !.joined = jn.rows]
        ELSE IF FloatRaises(tot)
        THEN [early EXCEPT !.raised = FloatError, !.joined = jn.rows]
        ELSE [raised |-> NoError, joined |-> jn.rows, daily_revenue |-> dr,
              completed_orders_count |-> Len(completed.rows),
              orders_with_revenue |-> SumCounts(dr),
              total_revenue |-> Float(tot)]

----------------------------------------------------------------------------
(* build_quality_report                                                    *)

\* variant: final_valid subtracts the dq rejects
build_quality_reportWrongFinal(input_orders, input_items, o_after_dq, o_rejected_dq, o_deduped, i_after_dq, i_rejected_dq, i_rejected_orphan, n_completed, n_with_revenue, revenue) ==
    [input       |-> [orders |-> input_orders, order_items |-> input_items],
     orders      |-> [after_dq |-> o_after_dq, rejected_dq |-> o_rejected_dq,
                      deduplicated |-> o_deduped,
                      final_valid |-> o_after_dq - o_rejected_dq],
     order_items |-> [after_dq |-> i_after_dq, rejected_dq |-> i_rejected_dq,
                      rejected_orphan |-> i_rejected_orphan,
                      final_valid |-> i_after_dq - i_rejected_dq],
     business    |-> [completed_orders |-> n_completed,
                      orders_with_revenue |-> n_with_revenue,
                      total_revenue |-> revenue]]

build_quality_report(input_orders, input_items, o_after_dq, o_rejected_dq, o_deduped, i_after_dq, i_rejected_dq, i_rejected_orphan, n_completed, n_with_revenue, revenue) ==
    [input       |-> [orders |-> input_orders, order_items |-> input_items],
     orders      |-> [after_dq |-> o_after_dq, rejected_dq |-> o_rejected_dq,
                      deduplicated |-> o_deduped,
                      final_valid |-> o_after_dq - o_deduped],
     order_items |-> [after_dq |-> i_after_dq, rejected_dq |-> i_rejected_dq,
                      rejected_orphan |-> i_rejected_orphan,
                      final_valid |-> i_after_dq - i_rejected_orphan],
     business    |-> [completed_orders |-> n_completed,
                      orders_with_revenue |-> n_with_revenue,
                      total_revenue |-> revenue]]

NoReport == build_quality_report(0, 0, 0, 0, 0, 0, 0, 0, 0, 0, 0)

----------------------------------------------------------------------------
(* The input files explored.  A CSV file is [exists, cols, rows], each row  *)
(* mapping the header's columns to the field's text ("" is an empty field). *)

Csv(cols, rows) == [exists |-> TRUE, cols |-> cols, rows |-> rows]

Missing == [exists |-> FALSE, cols |-> {}, rows |-> << >>]

\* all files with the given header and at most n rows drawn from R
CsvFiles(cols, R, n) ==
    { Csv(cols, rows) : rows \in UNION { [1..k -> R] : k \in 0..n } }

Project(R, cols) == { [col \in cols |-> r[col]] : r \in R }

OrderCols == {"order_id", "customer_id", "order_date", "status", "ingested_at"}

OrderDate == ("O1" :> "2024-01-01") @@ ("O2" :> "2024-01-02")

GoodOrderRows ==
    { [order_id |-> id, customer_id |-> "C1", order_date |-> OrderDate[id],
       status |-> st, ingested_at |-> ing] :
        id \in {"O1", "O2"}, st \in {" Completed ", "pending"},
        ing \in {"garbage", "2024-01-01 10:00", "2024-01-01 11:00"} }

GoodOrder ==
    [order_id |-> "O1", customer_id |-> "C1", order_date |-> "2024-01-01",
     status |-> " Completed ", ingested_at |-> "2024-01-01 11:00"]

\* one required field empty or unparsable
BadOrderRows ==
    { [GoodOrder EXCEPT !.order_id = ""], [GoodOrder EXCEPT !.customer_id = ""],
      [GoodOrder EXCEPT !.order_date = "not-a-date"],
      [GoodOrder EXCEPT !.status = ""] }

OrderRows == GoodOrderRows \cup BadOrderRows

\* with ingested_at, without it, and without a required column
OrderSchemas ==
    { OrderCols, OrderCols \ {"ingested_at"},
      OrderCols \ {"ingested_at", "status"} }

RichOrderFiles ==
    UNION { CsvFiles(cols, Project(OrderRows, cols), MaxOrders) :
              cols \in OrderSchemas }

FewOrderFiles ==
    { Csv(OrderCols, << >>),
      Csv(OrderCols,
          << GoodOrder,
             [GoodOrder EXCEPT !.order_id = "O2", !.order_date = "2024-01-02",
                               !.status = "COMPLETED"] >>),
      Csv(OrderCols,
          << [GoodOrder EXCEPT !.status = "pending"],
             [GoodOrder EXCEPT !.order_id = "O2", !.status = "completed"] >>),
      Csv(OrderCols, << [GoodOrder EXCEPT !.status = ""] >>) }

ItemCols == {"order_id", "quantity", "unit_price"}

GoodItem == [order_id |-> "O1", quantity |-> "2", unit_price |-> "2"]

GoodItemRows ==
    { [order_id |-> id, quantity |-> q, unit_price |-> "2"] :
        id \in {"O1", "O2"}, q \in {"2", "3"} }

\* an unknown or empty order_id
OrphanItemRows ==
    { [GoodItem EXCEPT !.order_id = "O9"], [GoodItem EXCEPT !.order_id = ""] }

\* an empty, non-numeric or non-positive quantity or unit_price
BadItemRows ==
    { [GoodItem EXCEPT !.quantity = ""], [GoodItem EXCEPT !.quantity = "abc"],
      [GoodItem EXCEPT !.unit_price = ""], [GoodItem EXCEPT !.unit_price = "0"],
      [GoodItem EXCEPT !.unit_price = "-1"],
      [GoodItem EXCEPT !.unit_price = "abc"] }

ItemRows == GoodItemRows \cup OrphanItemRows \cup BadItemRows

RichItemFiles == CsvFiles(ItemCols, ItemRows, MaxItems)

FewItemFiles ==
    { Csv(ItemCols, << >>),
      Csv(ItemCols,
          << GoodItem,
             [order_id |-> "O2", quantity |-> "3", unit_price |-> "1"],
             [order_id |-> "O2", quantity |-> "2", unit_price |-> "0"] >>),
      Csv(ItemCols \cup {"ingested_at"},
          << [order_id |-> "O1", quantity |-> "2", unit_price |-> "2",
              ingested_at |-> "garbage"],
             [order_id |-> "O2", quantity |-> "3", unit_price |-> "2",
              ingested_at |-> "2024-01-01 10:00"] >>),
      Csv(ItemCols \ {"unit_price"},
          << [order_id |-> "O1", quantity |-> "2"] >>) }

OutputNames ==
    {"daily_revenue.csv", "reject_orders.csv", "rejected_items.csv",
     "quality_report.json"}

NoFiles == [f \in {} |-> ""]

\* output_dir holding an earlier run's files
EarlierRunDir ==
    [exists |-> TRUE, files |-> [f \in OutputNames |-> "earlier run"]]

\* output_dir before the run: absent, or holding an earlier run's files
OutDirs == { [exists |-> FALSE, files |-> NoFiles], EarlierRunDir }

----------------------------------------------------------------------------
(* main                                                                    *)

Init ==
    /\ pc = "start"
    /\ error = NoError
    /\ \/ /\ ordersFile \in RichOrderFiles /\ itemsFile \in FewItemFiles
          /\ outDir = EarlierRunDir
       \/ /\ ordersFile \in FewOrderFiles /\ itemsFile \in RichItemFiles
          /\ outDir = EarlierRunDir
       \/ /\ ordersFile = Missing
          /\ itemsFile \in {Missing, Csv(ItemCols, << >>)}
          /\ outDir \in OutDirs
       \/ /\ ordersFile = Csv(OrderCols, << >>) /\ itemsFile = Missing
          /\ outDir \in OutDirs
    /\ orders = NoTable
    /\ items = NoTable
    /\ valid_orders = NoTable
    /\ rejected_orders = NoTable
    /\ orders_after_dq = 0
    /\ orders_rejected_dq = 0
    /\ orders_deduped = 0
    /\ valid_items = NoTable
    /\ rejected_items = NoTable
    /\ items_after_dq = 0
    /\ items_rejected_dq = 0
    /\ items_rejected_orphan = 0
    /\ joined = << >>
    /\ daily_revenue = << >>
    /\ completed_orders = 0
    /\ orders_with_revenue = 0
    /\ total_revenue = 0
    /\ report = NoReport

OrdersPath == "orders_<run_date>.csv"

ItemsPath == "order_items_<run_date>.csv"

FileNotFound(path) == << "FileNotFoundError: Missing input file: ", path >>

\* variant: only the orders file is checked
MissingInputErrorOrdersOnly(orders_file, items_file) ==
    IF ~orders_file.exists THEN FileNotFound(OrdersPath) ELSE << >>

\* lines 192-195: the exception the existence checks raise, << >> if none
MissingInputError(orders_file, items_file) ==
    IF ~orders_file.exists THEN FileNotFound(OrdersPath)
    ELSE IF ~items_file.exists THEN FileNotFound(ItemsPath)
    ELSE << >>

\* lines 185-198: mkdir, the two existence checks, the two reads
Start ==
    /\ pc = "start"
    /\ outDir' = [outDir EXCEPT !.exists = TRUE]
    /\ IF MissingInputError(ordersFile, itemsFile) # << >>
       THEN /\ pc' = "error"
            /\ error' = MissingInputError(ordersFile, itemsFile)
            /\ UNCHANGED << orders, items >>
       ELSE /\ pc' = "loaded"
            /\ error' = NoError
            /\ orders' = read_csv(ordersFile)
            /\ items' = read_csv(itemsFile)
    /\ UNCHANGED << ordersFile, itemsFile, valid_orders, rejected_orders,
                    orders_after_dq, orders_rejected_dq, orders_deduped,
                    valid_items, rejected_items, items_after_dq,
                    items_rejected_dq, items_rejected_orphan, joined,
                    daily_revenue, completed_orders, orders_with_revenue,
                    total_revenue, report >>

\* lines 208-210: stage_and_validate_orders(orders)
StageOrders ==
    /\ pc = "loaded"
    /\ LET df          == PrepareOrders(orders)
           dq_mask     == OrdersDqMaskOf(df)
           rejected    == BoolIndex(df, dq_mask)
           valid_stage == BoolIndex(df, Not(dq_mask))
       IN  /\ orders' = df
           /\ rejected_orders' = rejected
           /\ \E sorted \in (IF "ingested_at" \in Columns(valid_stage)
                             THEN sort_values(valid_stage.rows, "ingested_at")
                             ELSE {valid_stage.rows}) :
                 /\ valid_orders' = DedupOrders(valid_stage, sorted)
                 /\ orders_deduped' =
                        Len(valid_stage.rows) - Len(valid_orders'.rows)
           /\ orders_after_dq' = Len(valid_stage.rows)
           /\ orders_rejected_dq' = Len(rejected.rows)
    /\ pc' = "orders_staged"
    /\ UNCHANGED << error, ordersFile, itemsFile, outDir, items, valid_items,
                    rejected_items, items_after_dq, items_rejected_dq,
                    items_rejected_orphan, joined, daily_revenue,
                    completed_orders, orders_with_revenue, total_revenue,
                    report >>

\* lines 211-217: stage_and_validate_items(items, valid_orders)
StageItems ==
    /\ pc = "orders_staged"
    /\ LET df == PrepareItems(items)
           rejected_dq == BoolIndex(df, ItemsDqMaskOf(df))
           valid_stage == ItemsValidStage(df)
           orphan_mask == OrphanMaskOf(valid_stage, ValidOrderIds(valid_orders))
           rejected_orphan == BoolIndex(valid_stage, orphan_mask)
       IN  /\ items' = df
           /\ IF ItemsCompareRaises(df)
              THEN /\ pc' = "error"
                   /\ error' = ItemsCompareError
                   /\ UNCHANGED << valid_items, rejected_items, items_after_dq,
                                   items_rejected_dq, items_rejected_orphan >>
              ELSE /\ pc' = "items_staged"
                   /\ error' = NoError
                   /\ valid_items' = BoolIndex(valid_stage, Not(orphan_mask))
                   /\ rejected_items' = concat(rejected_dq, rejected_orphan)
                   /\ items_after_dq' = Len(valid_stage.rows)
                   /\ items_rejected_dq' = Len(rejected_dq.rows)
                   /\ items_rejected_orphan' = Len(rejected_orphan.rows)
    /\ UNCHANGED << ordersFile, itemsFile, outDir, orders, valid_orders,
                    rejected_orders, orders_after_dq, orders_rejected_dq,
                    orders_deduped, joined, daily_revenue, completed_orders,
                    orders_with_revenue, total_revenue, report >>

\* lines 219-224: compute_daily_revenue(valid_orders, valid_items)
ComputeRevenue ==
    /\ pc = "items_staged"
    /\ LET r == compute_daily_revenue(valid_orders, valid_items)
       IN  /\ joined' = r.joined
           /\ IF r.raised # NoError
              THEN /\ pc' = "error"
                   /\ error' = r.raised
                   /\ UNCHANGED << daily_revenue, completed_orders,
                                   orders_with_revenue, total_revenue >>
              ELSE /\ pc' = "computed"
                   /\ error' = NoError
                   /\ daily_revenue' = r.daily_revenue
                   /\ completed_orders' = r.completed_orders_count
                   /\ orders_with_revenue' = r.orders_with_revenue
                   /\ total_revenue' = r.total_revenue
    /\ UNCHANGED << ordersFile, itemsFile, outDir, orders, items, valid_orders,
                    rejected_orders, orders_after_dq, orders_rejected_dq,
                    orders_deduped, valid_items, rejected_items,
                    items_after_dq, items_rejected_dq, items_rejected_orphan,
                    report >>

\* lines 226-249: the three to_csv calls, build_quality_report, json.dump
WriteOutputs ==
    /\ pc = "computed"
    /\ report' = build_quality_report(
                    Len(orders.rows), Len(items.rows), orders_after_dq,
                    orders_rejected_dq, orders_deduped, items_after_dq,
                    items_rejected_dq, items_rejected_orphan, completed_orders,
                    orders_with_revenue, total_revenue)
    /\ outDir' = [outDir EXCEPT !.files = [f \in OutputNames |-> "this run"]]
    /\ pc' = "done"
    /\ UNCHANGED << error, ordersFile, itemsFile, orders, items, valid_orders,
                    rejected_orders, orders_after_dq, orders_rejected_dq,
                    orders_deduped, valid_items, rejected_items,
                    items_after_dq, items_rejected_dq, items_rejected_orphan,
                    joined, daily_revenue, completed_orders,
                    orders_with_revenue, total_revenue >>

Next == Start \/ StageOrders \/ StageItems \/ ComputeRevenue \/ WriteOutputs

Spec == Init /\ [][Next]_vars

----------------------------------------------------------------------------
(* Properties.                                                             *)

\* stage_and_validate_orders has returned
OrdersStageReturned ==
    \/ pc \in {"orders_staged", "items_staged", "computed", "done"}
    \/ pc = "error" /\ error \in {ItemsCompareError, StrAccessorError,
                                  MulError, FloatError}

\* stage_and_validate_items has returned
ItemsStageReturned ==
    \/ pc \in {"items_staged", "computed", "done"}
    \/ pc = "error" /\ error \in {StrAccessorError, MulError, FloatError}

\* compute_daily_revenue has been called
RevenueCalled ==
    \/ pc \in {"computed", "done"}
    \/ pc = "error" /\ error \in {StrAccessorError, MulError, FloatError}

BothInputsExist == ordersFile.exists /\ itemsFile.exists

IdxOf(df) == { df.rows[k].idx : k \in 1..Len(df.rows) }

RowsOf(df) == { df.rows[k].c : k \in 1..Len(df.rows) }

OrderIdsOf(df) == { df.rows[k].c["order_id"] : k \in 1..Len(df.rows) }

\* C1: after the order stage, orders_after_dq + orders_rejected_dq is the
\* number of raw order rows; after the item stage, items_after_dq +
\* items_rejected_dq is the number of raw item rows.
C1_DqCountsPartitionInput ==
    /\ OrdersStageReturned =>
          /\ orders_after_dq + orders_rejected_dq = Len(ordersFile.rows)
          /\ orders_rejected_dq = Cardinality(IdxOf(rejected_orders))
    /\ ItemsStageReturned =>
          /\ items_after_dq + items_rejected_dq = Len(itemsFile.rows)
          /\ items_after_dq = Len(valid_items.rows) + items_rejected_orphan

C1_Witness ==
    /\ pc = "items_staged"
    /\ orders_after_dq > 0 /\ orders_rejected_dq > 0
    /\ items_after_dq > 0 /\ items_rejected_dq > 0

\* C2: with an ingested_at column, every raw order row that survives the dq
\* check is represented in valid_orders by a row of its order_id whose
\* ingested_at is a timestamp at least as late as the row's own, and a
\* surviving row that is not the kept one is in neither valid_orders nor
\* rejected_orders.
C2_KeepsLatestIngested ==
    (OrdersStageReturned /\ "ingested_at" \in ordersFile.cols) =>
        \A i \in 1..Len(orders.rows) :
            LET r == orders.rows[i]
            IN  r.idx \notin IdxOf(rejected_orders) =>
                    \E k \in 1..Len(valid_orders.rows) :
                        LET v == valid_orders.rows[k]
                        IN  /\ v.c["order_id"] = r.c["order_id"]
                            /\ ~isna(r.c["ingested_at"]) =>
                                  /\ ~isna(v.c["ingested_at"])
                                  /\ r.c["ingested_at"].n <= v.c["ingested_at"].n
                            /\ r.idx # v.idx =>
                                  /\ r.idx \notin IdxOf(valid_orders)
                                  /\ r.idx \notin IdxOf(rejected_orders)

\* a raw order row, as text, has every required field and a parsable date
OrderTextPassesDq(i) ==
    \A col \in {"order_id", "customer_id", "order_date", "status"} :
        /\ col \in ordersFile.cols
        /\ ordersFile.rows[i][col] # ""
        /\ col = "order_date" => ordersFile.rows[i][col] \in DOMAIN DatetimeText

\* C9: after the order stage no two rows of valid_orders share an order_id,
\* and the order_id of every dq-passing raw row is in valid_orders exactly
\* once.
C9_UniqueOrderIds ==
    OrdersStageReturned =>
        /\ \A j, k \in 1..Len(valid_orders.rows) :
              j # k => valid_orders.rows[j].c["order_id"] #
                       valid_orders.rows[k].c["order_id"]
        /\ \A i \in 1..Len(ordersFile.rows) :
              OrderTextPassesDq(i) =>
                  Cardinality({ k \in 1..Len(valid_orders.rows) :
                                  valid_orders.rows[k].c["order_id"] =
                                  Str(ordersFile.rows[i]["order_id"]) }) = 1

C9_Witness ==
    /\ pc = "orders_staged"
    /\ orders_deduped > 0
    /\ Len(valid_orders.rows) > 0

\* C3: after the item stage, every raw item row whose order_id is not an
\* order_id of valid_orders (a null one included) is in rejected_items and
\* not in valid_items; every row of valid_items, and every row joined by
\* compute_daily_revenue, has an order_id of valid_orders.
C3_OrphansRejected ==
    ItemsStageReturned =>
        /\ \A i \in 1..Len(items.rows) :
              items.rows[i].c["order_id"] \notin OrderIdsOf(valid_orders) =>
                  /\ items.rows[i].c \in RowsOf(rejected_items)
                  /\ items.rows[i].idx \notin IdxOf(valid_items)
        /\ OrderIdsOf(valid_items) \subseteq OrderIdsOf(valid_orders)
        /\ \A k \in 1..Len(joined) :
              joined[k].c["order_id"] \in OrderIdsOf(valid_orders)

C3_Witness ==
    /\ pc = "computed"
    /\ items_rejected_orphan > 0
    /\ Len(joined) > 0
    /\ \E i \in 1..Len(items.rows) : isna(items.rows[i].c["order_id"])

\* the order_ids of the valid orders whose trimmed, lower-cased status is
\* "completed"
CompletedOrderIds ==
    { valid_orders.rows[k].c["order_id"] :
        k \in { j \in 1..Len(valid_orders.rows) :
                  /\ valid_orders.rows[j].c["status"].t = "str"
                  /\ valid_orders.rows[j].c["status"].s \in
                        {"completed", " Completed ", "COMPLETED"} } }

\* the raw item row i passed item validation and belongs to a completed order
ItemContributes(i) ==
    /\ (i - 1) \in IdxOf(valid_items)
    /\ Str(itemsFile.rows[i]["order_id"]) \in CompletedOrderIds

\* quantity * unit_price of the contributing raw item rows 1..n, as numbers
RECURSIVE ExpectedRevenue(_)
ExpectedRevenue(n) ==
    IF n = 0 THEN 0
    ELSE ExpectedRevenue(n - 1) +
         (IF ItemContributes(n)
          THEN NumText[itemsFile.rows[n]["quantity"]] *
               NumText[itemsFile.rows[n]["unit_price"]]
          ELSE 0)

\* C4: in a finished run, business.total_revenue of the report is the sum of
\* quantity * unit_price over the item rows that passed item validation and
\* whose order is a valid completed order; the valid items of other valid
\* orders are not in rejected_items.
C4_TotalRevenue ==
    pc = "done" =>
        /\ report.business.total_revenue = ExpectedRevenue(Len(itemsFile.rows))
        /\ \A k \in 1..Len(valid_items.rows) :
              valid_items.rows[k].c \notin RowsOf(rejected_items)

\* C5: when both input files exist the run never ends with an exception, and
\* a finished run has written all four outputs.
C5_RowContentNeverFatal ==
    BothInputsExist =>
        /\ pc # "error"
        /\ pc = "done" => \A f \in OutputNames :
                             f \in DOMAIN outDir.files /\ outDir.files[f] = "this run"

\* C6: when an input file is absent, the step main takes ends it with the
\* missing-input-file error naming the first absent path, reads nothing, and
\* leaves the files of output_dir as they were.
C6_MissingInputNoOutput ==
    [][ ~BothInputsExist =>
          /\ pc' = "error"
          /\ error' = FileNotFound(IF ~ordersFile.exists THEN OrdersPath
                                   ELSE ItemsPath)
          /\ outDir'.files = outDir.files
          /\ orders' = NoTable /\ items' = NoTable
          /\ report' = NoReport ]_vars

C6_Witness ==
    /\ pc = "error"
    /\ ordersFile.exists /\ ~itemsFile.exists
    /\ error = FileNotFound(ItemsPath)
    /\ outDir.files = [f \in OutputNames |-> "earlier run"]

\* C7: when compute_daily_revenue is called with no completed order or with
\* no valid item, it returns without error an empty revenue table and
\* completed_orders_count = 0, orders_with_revenue_count = 0,
\* total_revenue = 0.0.
C7_EmptyRevenueAllZero ==
    (RevenueCalled /\ (CompletedOrderIds = {} \/ Len(valid_items.rows) = 0)) =>
        /\ pc # "error"
        /\ daily_revenue = << >>
        /\ completed_orders = 0
        /\ orders_with_revenue = 0
        /\ total_revenue = 0

\* C8: in a finished run the report's orders.final_valid is the number of rows
\* of valid_orders, order_items.final_valid the number of rows of valid_items,
\* and no count of the report is negative.
C8_FinalValidCounts ==
    pc = "done" =>
        /\ report.orders.final_valid = Len(valid_orders.rows)
        /\ report.order_items.final_valid = Len(valid_items.rows)
        /\ \A sec \in {"input", "orders", "order_items", "business"} :
              \A key \in DOMAIN report[sec] : report[sec][key] >= 0

C8_Witness ==
    /\ pc = "done"
    /\ report.orders.deduplicated > 0
    /\ report.order_items.rejected_orphan > 0
    /\ report.order_items.rejected_dq > 0
    /\ report.order_items.final_valid > 0

\* C10: after the order stage the frame passed as raw_orders has the columns
\* and cell values that were read from the file, and after the item stage so
\* has the frame passed as raw_items.
C10_InputsUnchanged ==
    /\ OrdersStageReturned => orders = read_csv(ordersFile)
    /\ ItemsStageReturned => items = read_csv(itemsFile)

====
